---- MODULE Spec2Model ----
(***************************************************************************)
(* Model of src/main.py: the generic in-memory BaseRepository, the three   *)
(* module-level repositories and the FastAPI route handlers over them.     *)
(*                                                                         *)
(* Python values are tagged tuples (None, PyStr, PyInt, PyBool, Ref, ...)  *)
(* so that values of different Python types can be compared. A Python dict *)
(* is a sequence of <<key, value>> pairs in insertion order; an object is  *)
(* a heap cell holding its attributes (a function from attribute names to  *)
(* values) and is referred to by its reference (its index in the heap).    *)
(***************************************************************************)
EXTENDS Integers, Sequences, FiniteSets, TLC

VARIABLES
    repos,   \* repository name -> [storage: dict key -> ref, counter: int]
    heap,    \* reference -> object attributes, for the live objects
    nobj,    \* number of record objects constructed so far
    assigned,\* history: per repository, the identities add returned, in call order
    th       \* the request threads of the concurrent specification

vars == <<repos, heap, nobj, assigned, th>>

----------------------------------------------------------------------------
(* Bounds of the model *)

\* Record objects constructed in one run (over all repositories).
MaxObjs == 2

\* Request threads of the concurrent specification.
NThreads == 3

----------------------------------------------------------------------------
(* Python values *)

None == <<"None">>
PyStr(s) == <<"str", s>>
PyInt(i) == <<"int", i>>
PyBool(b) == <<"bool", b>>
Ref(r) == <<"ref", r>>
DateTime(t) == <<"datetime", t>>
PyList(s) == <<"list", s>>
Json(o) == <<"json", o>>

\* Python truth value of v, as `not v` and `if v` use it; an instance of
\* Task, Project or User defines neither __bool__ nor __len__ and is true.
Truthy(v) ==
    CASE v[1] = "None" -> FALSE
      [] v[1] = "bool" -> v[2]
      [] v[1] = "int" -> v[2] /= 0
      [] v[1] = "str" -> v[2] /= ""
      [] v[1] = "list" -> Len(v[2]) > 0
      [] OTHER -> TRUE

----------------------------------------------------------------------------
(* Python dict: a sequence of <<key, value>> pairs, keys pairwise distinct *)

DictKeys(d) == {d[i][1] : i \in 1..Len(d)}
DictHas(d, k) == \E i \in 1..Len(d) : d[i][1] = k
DictAt(d, k) == d[CHOOSE i \in 1..Len(d) : d[i][1] = k][2]
DictSet(d, k, v) ==
    IF DictHas(d, k)
    THEN [i \in 1..Len(d) |-> IF d[i][1] = k THEN <<k, v>> ELSE d[i]]
    ELSE Append(d, <<k, v>>)
DictDel(d, k) == SelectSeq(d, LAMBDA e : e[1] /= k)
DictValues(d) == [i \in 1..Len(d) |-> d[i][2]]

\* dict.get(k) on the storage, whose values are references
StorageGet(d, k) == IF DictHas(d, k) THEN Ref(DictAt(d, k)) ELSE None

\* setattr(obj, k, v)
SetAttr(obj, k, v) == [a \in (DOMAIN obj) \cup {k} |-> IF a = k THEN v ELSE obj[a]]

----------------------------------------------------------------------------
(* Domain classes: Task, Project, User.  Calling a class with keyword      *)
(* arguments unpacked from a dict, kwargs, raises                          *)
(* TypeError when a parameter without default is missing or when a keyword *)
(* is no parameter of __init__.                                            *)

TaskParams == {"id", "title", "description", "completed", "project_id", "user_id"}
TaskRequired == {"id", "title", "description"}
ProjectParams == {"id", "name"}
UserParams == {"id", "name", "email"}

\* Whether the call of a class with kwargs binds its arguments (no TypeError).
CallBinds(kwargs, params, required) ==
    /\ required \subseteq DictKeys(kwargs)
    /\ DictKeys(kwargs) \subseteq params

\* An argument of the call, or the parameter's default.
Arg(kwargs, k, default) == IF DictHas(kwargs, k) THEN DictAt(kwargs, k) ELSE default

\* datetime.now() at the construction of the n-th record object: the wall
\* clock is read as a logical clock that advances with every construction.
Now(n) == DateTime(n)

Task(kwargs, n) ==
    [id |-> DictAt(kwargs, "id"),
     title |-> DictAt(kwargs, "title"),
     description |-> DictAt(kwargs, "description"),
     completed |-> Arg(kwargs, "completed", PyBool(FALSE)),
     project_id |-> Arg(kwargs, "project_id", None),
     user_id |-> Arg(kwargs, "user_id", None),
     created_at |-> Now(n)]

Project(kwargs) ==
    [id |-> DictAt(kwargs, "id"), name |-> DictAt(kwargs, "name")]

User(kwargs) ==
    [id |-> DictAt(kwargs, "id"), name |-> DictAt(kwargs, "name"),
     email |-> DictAt(kwargs, "email")]

Repos == {"task", "project", "user"}

\* The class whose instances repository r holds, called with kwargs.
ParamsOf(r) ==
    CASE r = "task" -> TaskParams [] r = "project" -> ProjectParams [] OTHER -> UserParams
RequiredOf(r) ==
    CASE r = "task" -> TaskRequired [] r = "project" -> ProjectParams [] OTHER -> UserParams
Construct(r, kwargs, n) ==
    CASE r = "task" -> Task(kwargs, n)
      [] r = "project" -> Project(kwargs)
      [] OTHER -> User(kwargs)

----------------------------------------------------------------------------
(* The heap of record objects *)

NoHeap == [r \in {} |-> None]

\* The heap with a new object under reference ref.
Alloc(h, ref, obj) == [r \in (DOMAIN h) \cup {ref} |-> IF r = ref THEN obj ELSE h[r]]

\* The references a value holds.
RefsOf(v) ==
    CASE v[1] = "ref" -> {v[2]}
      [] v[1] = "list" -> {v[2][i] : i \in 1..Len(v[2])}
      [] OTHER -> {}

\* The references the repositories hold.
Stored(rs) == UNION {{rs[r].storage[i][2] : i \in 1..Len(rs[r].storage)} : r \in Repos}

\* Reference counting: an object nothing refers to any more is freed.
Collect(h, roots) == [r \in (DOMAIN h) \cap roots |-> h[r]]

----------------------------------------------------------------------------
(* BaseRepository *)

\* Mutant of NewRepository: the counter starts at 0.
NewRepository_from_zero == [storage |-> <<>>, counter |-> 0]

\* __init__
NewRepository == [storage |-> <<>>, counter |-> 1]

\* Mutant of add_id: an identity the item already carries is kept.
add_id_keep_caller(h, ref, counter) ==
    IF h[ref].id /= PyInt(0) THEN h
    ELSE [h EXCEPT ![ref] = SetAttr(@, "id", PyInt(counter))]

\* add, line 90: item.id = self._counter
add_id(h, ref, counter) == [h EXCEPT ![ref] = SetAttr(@, "id", PyInt(counter))]

\* Mutant of add_store: the counter is advanced before the item is stored.
add_store_late(storage, counter, ref) == DictSet(storage, counter + 1, ref)

\* add, line 91: self._storage[self._counter] = item
add_store(storage, counter, ref) == DictSet(storage, counter, ref)

\* Mutant of add_incr: the counter is left as it was.
add_incr_forgotten(counter) == counter

\* add, line 92: self._counter += 1
add_incr(counter) == counter + 1

\* add(item), run without interruption: the repository and the heap after
\* it, and the item it returns.
add(repo, h, ref) ==
    [repo |-> [storage |-> add_store(repo.storage, repo.counter, ref),
               counter |-> add_incr(repo.counter)],
     heap |-> add_id(h, ref, repo.counter),
     ret |-> Ref(ref)]

get(repo, item_id) == StorageGet(repo.storage, item_id)

\* Mutant of list: the records come newest first.
list_newest_first(repo) ==
    PyList([i \in 1..Len(repo.storage) |-> repo.storage[Len(repo.storage) + 1 - i][2]])

list(repo) == PyList(DictValues(repo.storage))

\* Mutant of delete: the identity of a deleted record is handed out again.
delete_reclaim(repo, item_id) ==
    IF DictHas(repo.storage, item_id)
    THEN [repo |-> [storage |-> DictDel(repo.storage, item_id), counter |-> item_id],
          ret |-> PyBool(TRUE)]
    ELSE [repo |-> repo, ret |-> PyBool(FALSE)]

\* Mutant of delete: success is reported for every identity.
delete_always_true(repo, item_id) ==
    [repo |-> [repo EXCEPT !.storage = DictDel(@, item_id)], ret |-> PyBool(TRUE)]

delete(repo, item_id) ==
    IF DictHas(repo.storage, item_id)
    THEN [repo |-> [repo EXCEPT !.storage = DictDel(@, item_id)], ret |-> PyBool(TRUE)]
    ELSE [repo |-> repo, ret |-> PyBool(FALSE)]

\* for key, value in data.items(): setattr(item, key, value)
RECURSIVE SetAttrs(_, _)
SetAttrs(obj, data) ==
    IF data = <<>> THEN obj
    ELSE SetAttrs(SetAttr(obj, data[1][1], data[1][2]), Tail(data))

update(repo, h, item_id, data) ==
    LET item == StorageGet(repo.storage, item_id) IN
    IF ~Truthy(item)
    THEN [heap |-> h, ret |-> None]
    ELSE [heap |-> [h EXCEPT ![item[2]] = SetAttrs(@, data)], ret |-> item]

----------------------------------------------------------------------------
(* Pydantic schemas: a schema is the sequence of its fields in definition  *)
(* order (inherited fields first).                                         *)

Field(name, type, optional, required, default) ==
    [name |-> name, type |-> type, optional |-> optional,
     required |-> required, default |-> default]

TaskCreateSchema ==
    << Field("title", "str", FALSE, TRUE, None),
       Field("description", "str", FALSE, TRUE, None),
       Field("completed", "bool", FALSE, FALSE, PyBool(FALSE)),
       Field("project_id", "int", TRUE, FALSE, None),
       Field("user_id", "int", TRUE, FALSE, None) >>

TaskUpdateSchema ==
    << Field("title", "str", TRUE, FALSE, None),
       Field("description", "str", TRUE, FALSE, None),
       Field("completed", "bool", TRUE, FALSE, None),
       Field("project_id", "int", TRUE, FALSE, None),
       Field("user_id", "int", TRUE, FALSE, None) >>

TaskResponseSchema ==
    TaskCreateSchema \o
    << Field("id", "int", FALSE, TRUE, None),
       Field("created_at", "datetime", FALSE, TRUE, None) >>

ProjectCreateSchema == << Field("name", "str", FALSE, TRUE, None) >>
ProjectResponseSchema == ProjectCreateSchema \o << Field("id", "int", FALSE, TRUE, None) >>

UserCreateSchema ==
    << Field("name", "str", FALSE, TRUE, None), Field("email", "str", FALSE, TRUE, None) >>
UserResponseSchema == UserCreateSchema \o << Field("id", "int", FALSE, TRUE, None) >>

\* Whether value v is accepted for field f.
TypeOk(f, v) == (f.optional /\ v = None) \/ v[1] = f.type

\* Validation of a request body (a dict) against a schema; keys that are no
\* field of the schema are ignored.
Validates(schema, body) ==
    \A i \in 1..Len(schema) :
        IF DictHas(body, schema[i].name)
        THEN TypeOk(schema[i], DictAt(body, schema[i].name))
        ELSE ~schema[i].required

\* model.dict(): every field, given or defaulted.
dict(schema, body) ==
    [i \in 1..Len(schema) |-> <<schema[i].name, Arg(body, schema[i].name, schema[i].default)>>]

\* Mutant of dict_exclude_unset: the fields the body left out are included
\* with their defaults.
dict_include_unset(schema, body) == dict(schema, body)

\* model.dict(exclude_unset=True): only the fields the body set explicitly.
dict_exclude_unset(schema, body) ==
    SelectSeq(dict(schema, body), LAMBDA e : DictHas(body, e[1]))

\* Validation of a returned object against the response_model, read from
\* its attributes (from_attributes).
ValidatesAttrs(schema, obj) ==
    \A i \in 1..Len(schema) :
        IF schema[i].name \in DOMAIN obj
        THEN TypeOk(schema[i], obj[schema[i].name])
        ELSE ~schema[i].required

Serialize(schema, obj) ==
    Json([n \in {schema[i].name : i \in 1..Len(schema)} |->
            IF n \in DOMAIN obj THEN obj[n]
            ELSE schema[CHOOSE i \in 1..Len(schema) : schema[i].name = n].default])

\* The response FastAPI sends for a returned object under a response_model:
\* 200 with the serialized object, or 500 when the object does not validate.
Respond(schema, obj) ==
    IF ValidatesAttrs(schema, obj)
    THEN [status |-> 200, body |-> Serialize(schema, obj)]
    ELSE [status |-> 500, body |-> <<"error", "ResponseValidationError">>]

\* The response for a returned list of objects under a List[...] response_model.
RespondList(schema, h, refs) ==
    IF \A i \in 1..Len(refs) : ValidatesAttrs(schema, h[refs[i]])
    THEN [status |-> 200, body |-> PyList([i \in 1..Len(refs) |-> Serialize(schema, h[refs[i]])])]
    ELSE [status |-> 500, body |-> <<"error", "ResponseValidationError">>]

NotFound(detail) == [status |-> 404, body |-> <<"detail", detail>>]
Unprocessable == [status |-> 422, body |-> <<"error", "RequestValidationError">>]
ServerError(exc) == [status |-> 500, body |-> <<"error", exc>>]

----------------------------------------------------------------------------
(* Inputs *)

\* Identities asked for: every one that can be assigned, and one that cannot.
Ids == 1..(MaxObjs + 1)

\* Arguments of a caller constructing a record to add; the caller sets id.
NewArgs(r) ==
    CASE r = "task" ->
           { << <<"id", PyInt(0)>>, <<"title", PyStr("A")>>, <<"description", PyStr("d")>> >>,
             << <<"id", PyInt(7)>>, <<"title", PyStr("A")>>, <<"description", PyStr("d")>>,
                <<"completed", PyBool(TRUE)>> >> }
      [] r = "project" -> { << <<"id", PyInt(0)>>, <<"name", PyStr("X")>> >> }
      [] OTHER -> { << <<"id", PyInt(0)>>, <<"name", PyStr("U")>>, <<"email", PyStr("e")>> >> }

\* Partial-field payloads of a caller's update.
Payloads(r) ==
    CASE r = "task" ->
           { <<>>,
             << <<"title", PyStr("B")>>, <<"completed", PyBool(TRUE)>> >>,
             << <<"id", PyInt(9)>> >>,
             << <<"created_at", DateTime(0)>> >> }
      [] r = "project" -> { <<>>, << <<"name", PyStr("Y")>> >> }
      [] OTHER -> { <<>>, << <<"email", PyStr("f")>> >> }

\* JSON bodies of POST /tasks/
TaskCreateBodies ==
    { << <<"title", PyStr("A")>>, <<"description", PyStr("d")>> >>,
      << <<"title", PyStr("A")>>, <<"description", PyStr("d")>>,
         <<"id", PyInt(7)>>, <<"created_at", DateTime(0)>> >>,
      << <<"description", PyStr("d")>> >> }

\* JSON bodies of PUT /tasks/{task_id}
TaskUpdateBodies ==
    { <<>>,
      << <<"completed", PyBool(TRUE)>> >>,
      << <<"title", None>> >>,
      << <<"title", PyInt(5)>> >> }

\* JSON bodies of POST /projects/ and POST /users/
ProjectCreateBodies == { << <<"name", PyStr("X")>> >>, <<>> }
UserCreateBodies == { << <<"name", PyStr("U")>>, <<"email", PyStr("e")>> >> }

----------------------------------------------------------------------------
(* State *)

Threads == 1..NThreads

\* A request thread: where it is in the method it runs (pc), the method (op)
\* and its argument item_id (id), its local item, the values of
\* self._counter it has read for the subscript (key) and for += (tmp), the
\* items of data still to be set by update (data), and what the call
\* returned or the request answered (ret).  payload and old are history:
\* the data an update was called with and the record as the update found it.
IdleThread ==
    [pc |-> "idle", op |-> "none", id |-> 0, item |-> None, key |-> 0, tmp |-> 0,
     data |-> <<>>, ret |-> None, payload |-> <<>>, old |-> None]

\* The references the request threads hold.
ThreadRefs(thr) == UNION {RefsOf(thr[t].item) \cup RefsOf(thr[t].ret) : t \in Threads}

\* The state of the service as one value, for the operations to work on.
State == [repos |-> repos, heap |-> heap, nobj |-> nobj, assigned |-> assigned]

Fresh ==
    [repos |-> [r \in Repos |-> NewRepository],
     heap |-> NoHeap,
     nobj |-> 0,
     assigned |-> [r \in Repos |-> <<>>]]

Init ==
    /\ repos = Fresh.repos
    /\ heap = Fresh.heap
    /\ nobj = Fresh.nobj
    /\ assigned = Fresh.assigned
    /\ th = [t \in Threads |-> IdleThread]

\* The service moves to state s; objects nothing refers to are freed.
Becomes(s) ==
    /\ repos' = s.repos
    /\ nobj' = s.nobj
    /\ assigned' = s.assigned
    /\ heap' = Collect(s.heap, Stored(s.repos) \cup ThreadRefs(th))
    /\ UNCHANGED th

----------------------------------------------------------------------------
(* A caller's direct calls of the methods of repository r, in state s:     *)
(* the state after the call and what the call returns.                     *)

\* Mutant of CallAdd: the repositories share one counter.
CallAdd_shared_counter(s, r, kwargs) ==
    LET ref == s.nobj + 1
        res == add([s.repos[r] EXCEPT !.counter = s.nobj + 1],
                   Alloc(s.heap, ref, Construct(r, kwargs, ref)), ref)
    IN [s |-> [repos |-> [s.repos EXCEPT ![r] = res.repo],
               heap |-> res.heap,
               nobj |-> ref,
               assigned |-> [s.assigned EXCEPT ![r] = Append(@, res.heap[ref].id[2])]],
        ret |-> res.ret]

\* r.add(Class(kwargs...))
CallAdd(s, r, kwargs) ==
    LET ref == s.nobj + 1
        res == add(s.repos[r], Alloc(s.heap, ref, Construct(r, kwargs, ref)), ref)
    IN [s |-> [repos |-> [s.repos EXCEPT ![r] = res.repo],
               heap |-> res.heap,
               nobj |-> ref,
               assigned |-> [s.assigned EXCEPT ![r] = Append(@, res.heap[ref].id[2])]],
        ret |-> res.ret]

\* Mutant of CallGet: a missing identity is given a default record, as
\* dict.setdefault would.
CallGet_setdefault(s, r, item_id) ==
    IF DictHas(s.repos[r].storage, item_id)
    THEN [s |-> s, ret |-> get(s.repos[r], item_id)]
    ELSE [s |-> [repos |-> [s.repos EXCEPT ![r].storage = DictSet(@, item_id, s.nobj + 1)],
                 heap |-> Alloc(s.heap, s.nobj + 1, [id |-> None]),
                 nobj |-> s.nobj + 1,
                 assigned |-> s.assigned],
          ret |-> Ref(s.nobj + 1)]

CallGet(s, r, item_id) == [s |-> s, ret |-> get(s.repos[r], item_id)]

CallList(s, r) == [s |-> s, ret |-> list(s.repos[r])]

CallDelete(s, r, item_id) ==
    LET res == delete(s.repos[r], item_id)
    IN [s |-> [s EXCEPT !.repos[r] = res.repo], ret |-> res.ret]

CallUpdate(s, r, item_id, data) ==
    LET res == update(s.repos[r], s.heap, item_id, data)
    IN [s |-> [s EXCEPT !.heap = res.heap], ret |-> res.ret]

Add(r) ==
    /\ nobj < MaxObjs
    /\ \E kwargs \in NewArgs(r) : Becomes(CallAdd(State, r, kwargs).s)

Get(r) == \E id \in Ids : Becomes(CallGet(State, r, id).s)

List(r) == Becomes(CallList(State, r).s)

Delete(r) == \E id \in Ids : Becomes(CallDelete(State, r, id).s)

Update(r) == \E id \in Ids, data \in Payloads(r) : Becomes(CallUpdate(State, r, id, data).s)

----------------------------------------------------------------------------
(* Route handlers: the state after the request and the response to it *)

\* create_task, create_project, create_user
Create(s, r, schema, response_model, body) ==
    IF ~Validates(schema, body)
    THEN [s |-> s, resp |-> Unprocessable]
    ELSE LET kwargs == dict(schema, body) IN
         IF ~CallBinds(kwargs, ParamsOf(r), RequiredOf(r))
         THEN [s |-> s, resp |-> ServerError("TypeError")]
         ELSE LET res == CallAdd(s, r, kwargs)
              IN [s |-> res.s, resp |-> Respond(response_model, res.s.heap[res.ret[2]])]

\* read_tasks, read_projects, read_users
ReadAll(s, r, response_model) ==
    [s |-> s, resp |-> RespondList(response_model, s.heap, list(s.repos[r])[2])]

create_task(s, body) == Create(s, "task", TaskCreateSchema, TaskResponseSchema, body)

read_task(s, task_id) ==
    LET task == get(s.repos["task"], task_id) IN
    [s |-> s,
     resp |-> IF ~Truthy(task) THEN NotFound("Task not found")
              ELSE Respond(TaskResponseSchema, s.heap[task[2]])]

read_tasks(s) == ReadAll(s, "task", TaskResponseSchema)

update_task(s, task_id, body) ==
    IF ~Validates(TaskUpdateSchema, body)
    THEN [s |-> s, resp |-> Unprocessable]
    ELSE LET res == CallUpdate(s, "task", task_id, dict_exclude_unset(TaskUpdateSchema, body))
         IN [s |-> res.s,
             resp |-> IF ~Truthy(res.ret) THEN NotFound("Task not found")
                      ELSE Respond(TaskResponseSchema, res.s.heap[res.ret[2]])]

delete_task(s, task_id) ==
    LET res == CallDelete(s, "task", task_id) IN
    [s |-> res.s,
     resp |-> IF ~Truthy(res.ret) THEN NotFound("Task not found")
              ELSE [status |-> 200, body |-> <<"message", "Task deleted">>]]

create_project(s, body) ==
    Create(s, "project", ProjectCreateSchema, ProjectResponseSchema, body)

read_projects(s) == ReadAll(s, "project", ProjectResponseSchema)

create_user(s, body) == Create(s, "user", UserCreateSchema, UserResponseSchema, body)

read_users(s) == ReadAll(s, "user", UserResponseSchema)

\* The requests, served one at a time.
PostTasks ==
    \E body \in TaskCreateBodies :
        LET out == create_task(State, body) IN out.s.nobj <= MaxObjs /\ Becomes(out.s)
GetTask == \E task_id \in Ids : Becomes(read_task(State, task_id).s)
GetTasks == Becomes(read_tasks(State).s)
PutTask ==
    \E task_id \in Ids, body \in TaskUpdateBodies : Becomes(update_task(State, task_id, body).s)
DeleteTask == \E task_id \in Ids : Becomes(delete_task(State, task_id).s)
PostProjects ==
    \E body \in ProjectCreateBodies :
        LET out == create_project(State, body) IN out.s.nobj <= MaxObjs /\ Becomes(out.s)
GetProjects == Becomes(read_projects(State).s)
PostUsers ==
    \E body \in UserCreateBodies :
        LET out == create_user(State, body) IN out.s.nobj <= MaxObjs /\ Becomes(out.s)
GetUsers == Becomes(read_users(State).s)

----------------------------------------------------------------------------
(* Specification: calls and requests one at a time *)

Next ==
    \/ \E r \in Repos : Add(r)
    \/ \E r \in Repos : Get(r)
    \/ \E r \in Repos : List(r)
    \/ \E r \in Repos : Delete(r)
    \/ \E r \in Repos : Update(r)
    \/ PostTasks
    \/ GetTask
    \/ GetTasks
    \/ PutTask
    \/ DeleteTask
    \/ PostProjects
    \/ GetProjects
    \/ PostUsers
    \/ GetUsers

Spec == Init /\ [][Next]_vars

----------------------------------------------------------------------------
(* Requests served concurrently.  FastAPI runs the handlers, plain def     *)
(* functions, on the threads of a pool; the repository takes no lock, so   *)
(* the interpreter may switch threads between any two of a method's reads  *)
(* and writes of self._storage and self._counter, and between the turns of *)
(* update's loop.  Each thread serves one call or request on the task      *)
(* repository, step by step.                                               *)

\* A step of thread t that leaves it as next, the task repository as repo
\* and the heap as h.
ThreadStep(t, next, repo, h) ==
    LET thr == [th EXCEPT ![t] = next]
        rs == [repos EXCEPT !["task"] = repo]
    IN /\ th' = thr
       /\ repos' = rs
       /\ heap' = Collect(h, Stored(rs) \cup ThreadRefs(thr))

\* The caller constructs the item and calls add(item).
StartAdd(t) ==
    /\ th[t].pc = "idle"
    /\ nobj < MaxObjs
    /\ \E kwargs \in NewArgs("task") :
        LET ref == nobj + 1 IN
        /\ ThreadStep(t, [th[t] EXCEPT !.pc = "add_id", !.op = "add", !.item = Ref(ref)],
                      repos["task"], Alloc(heap, ref, Construct("task", kwargs, ref)))
        /\ nobj' = ref
    /\ UNCHANGED assigned

\* line 90: item.id = self._counter
AddId(t) ==
    /\ th[t].pc = "add_id"
    /\ ThreadStep(t, [th[t] EXCEPT !.pc = "add_key"], repos["task"],
                  add_id(heap, th[t].item[2], repos["task"].counter))
    /\ UNCHANGED <<nobj, assigned>>

\* line 91: the subscript self._counter is read ...
AddKey(t) ==
    /\ th[t].pc = "add_key"
    /\ ThreadStep(t, [th[t] EXCEPT !.pc = "add_store", !.key = repos["task"].counter],
                  repos["task"], heap)
    /\ UNCHANGED <<nobj, assigned>>

\* ... and the item is stored under it: self._storage[...] = item
AddStore(t) ==
    /\ th[t].pc = "add_store"
    /\ ThreadStep(t, [th[t] EXCEPT !.pc = "add_load"],
                  [repos["task"] EXCEPT !.storage = add_store(@, th[t].key, th[t].item[2])],
                  heap)
    /\ UNCHANGED <<nobj, assigned>>

\* line 92: self._counter += 1 reads self._counter ...
AddLoad(t) ==
    /\ th[t].pc = "add_load"
    /\ ThreadStep(t, [th[t] EXCEPT !.pc = "add_incr", !.tmp = repos["task"].counter],
                  repos["task"], heap)
    /\ UNCHANGED <<nobj, assigned>>

\* ... and writes the sum back
AddIncr(t) ==
    /\ th[t].pc = "add_incr"
    /\ ThreadStep(t, [th[t] EXCEPT !.pc = "add_return"],
                  [repos["task"] EXCEPT !.counter = add_incr(th[t].tmp)], heap)
    /\ UNCHANGED <<nobj, assigned>>

\* line 93: return item
AddReturn(t) ==
    /\ th[t].pc = "add_return"
    /\ ThreadStep(t, [th[t] EXCEPT !.pc = "done", !.ret = th[t].item], repos["task"], heap)
    /\ assigned' = [assigned EXCEPT !["task"] = Append(@, heap[th[t].item[2]].id[2])]
    /\ UNCHANGED nobj

\* The caller calls delete(item_id).
StartDelete(t) ==
    /\ th[t].pc = "idle"
    /\ \E id \in Ids :
        ThreadStep(t, [th[t] EXCEPT !.pc = "delete_check", !.op = "delete", !.id = id],
                   repos["task"], heap)
    /\ UNCHANGED <<nobj, assigned>>

\* line 102: if item_id in self._storage; line 105: return False
DeleteCheck(t) ==
    /\ th[t].pc = "delete_check"
    /\ ThreadStep(t,
                  IF DictHas(repos["task"].storage, th[t].id)
                  THEN [th[t] EXCEPT !.pc = "delete_del"]
                  ELSE [th[t] EXCEPT !.pc = "done", !.ret = PyBool(FALSE)],
                  repos["task"], heap)
    /\ UNCHANGED <<nobj, assigned>>

\* line 103: del self._storage[item_id], which raises KeyError when another
\* thread has removed the key since the check; line 104: return True.  The
\* thread keeps the removed record in item.
DeleteDel(t) ==
    /\ th[t].pc = "delete_del"
    /\ ThreadStep(t,
                  IF DictHas(repos["task"].storage, th[t].id)
                  THEN [th[t] EXCEPT !.pc = "done", !.ret = PyBool(TRUE),
                                     !.item = StorageGet(repos["task"].storage, th[t].id)]
                  ELSE [th[t] EXCEPT !.pc = "done", !.ret = <<"raised", "KeyError">>],
                  [repos["task"] EXCEPT !.storage = DictDel(@, th[t].id)], heap)
    /\ UNCHANGED <<nobj, assigned>>

\* The caller calls update(item_id, data).
StartUpdate(t) ==
    /\ th[t].pc = "idle"
    /\ \E id \in Ids, data \in Payloads("task") :
        ThreadStep(t, [th[t] EXCEPT !.pc = "update_get", !.op = "update", !.id = id,
                                    !.data = data, !.payload = data],
                   repos["task"], heap)
    /\ UNCHANGED <<nobj, assigned>>

\* lines 108-110: item = self._storage.get(item_id); if not item: return None
UpdateGet(t) ==
    /\ th[t].pc = "update_get"
    /\ LET item == StorageGet(repos["task"].storage, th[t].id) IN
       ThreadStep(t,
                  IF ~Truthy(item)
                  THEN [th[t] EXCEPT !.pc = "done", !.ret = None]
                  ELSE [th[t] EXCEPT !.pc = "update_set", !.item = item,
                                     !.old = Json(heap[item[2]])],
                  repos["task"], heap)
    /\ UNCHANGED <<nobj, assigned>>

\* lines 111-112: one turn of the loop, setattr(item, key, value)
UpdateSet(t) ==
    /\ th[t].pc = "update_set"
    /\ th[t].data /= <<>>
    /\ ThreadStep(t, [th[t] EXCEPT !.data = Tail(@)], repos["task"],
                  [heap EXCEPT ![th[t].item[2]] =
                      SetAttr(@, th[t].data[1][1], th[t].data[1][2])])
    /\ UNCHANGED <<nobj, assigned>>

\* line 113: return item, once the loop has ended
UpdateReturn(t) ==
    /\ th[t].pc = "update_set"
    /\ th[t].data = <<>>
    /\ ThreadStep(t, [th[t] EXCEPT !.pc = "done", !.ret = th[t].item], repos["task"], heap)
    /\ UNCHANGED <<nobj, assigned>>

\* GET /tasks/{task_id} arrives.
StartRead(t) ==
    /\ th[t].pc = "idle"
    /\ \E id \in Ids :
        ThreadStep(t, [th[t] EXCEPT !.pc = "read_get", !.op = "read", !.id = id],
                   repos["task"], heap)
    /\ UNCHANGED <<nobj, assigned>>

\* read_task, lines 134-137: the task is fetched and returned, or 404 raised
ReadGet(t) ==
    /\ th[t].pc = "read_get"
    /\ LET task == get(repos["task"], th[t].id) IN
       ThreadStep(t,
                  IF ~Truthy(task)
                  THEN [th[t] EXCEPT !.pc = "done", !.ret = NotFound("Task not found").body]
                  ELSE [th[t] EXCEPT !.pc = "read_serialize", !.item = task],
                  repos["task"], heap)
    /\ UNCHANGED <<nobj, assigned>>

\* line 132: after read_task has returned the task, its attributes are read
\* to build the response under response_model=TaskResponseSchema.
ReadSerialize(t) ==
    /\ th[t].pc = "read_serialize"
    /\ ThreadStep(t, [th[t] EXCEPT !.pc = "done",
                                   !.ret = Respond(TaskResponseSchema, heap[th[t].item[2]]).body],
                  repos["task"], heap)
    /\ UNCHANGED <<nobj, assigned>>

NextConc ==
    \E t \in Threads :
        \/ StartAdd(t)
        \/ AddId(t)
        \/ AddKey(t)
        \/ AddStore(t)
        \/ AddLoad(t)
        \/ AddIncr(t)
        \/ AddReturn(t)
        \/ StartDelete(t)
        \/ DeleteCheck(t)
        \/ DeleteDel(t)
        \/ StartUpdate(t)
        \/ UpdateGet(t)
        \/ UpdateSet(t)
        \/ UpdateReturn(t)
        \/ StartRead(t)
        \/ ReadGet(t)
        \/ ReadSerialize(t)

SpecConc == Init /\ [][NextConc]_vars

----------------------------------------------------------------------------
(* Properties *)

Present(s, r, id) == DictHas(s.repos[r].storage, id)

\* The identity (an integer) of the record a call returned.
IdOf(s, ret) == s.heap[ret[2]].id[2]

\* C1: the k-th add on a repository returns a record whose identity is k:
\* the identities returned so far are 1, 2, 3, ... in call order, and the
\* next add returns the next one.
C1_IdentitiesCountUp ==
    \A r \in Repos :
        /\ \A k \in 1..Len(assigned[r]) : assigned[r][k] = k
        /\ \A kwargs \in NewArgs(r) :
            LET a == CallAdd(State, r, kwargs)
            IN /\ a.ret[1] = "ref"
               /\ IdOf(a.s, a.ret) = Len(assigned[r]) + 1

\* Two adds were made on the task repository.
C1_Witness == Len(assigned["task"]) >= 2

\* C2: identities are handed out in strictly increasing order whatever was
\* deleted in between: every identity add returned is greater than those
\* returned before it, and the next add returns one greater than all of
\* them, the deleted ones included.
C2_NeverReused ==
    \A r \in Repos :
        /\ \A i, j \in 1..Len(assigned[r]) : i < j => assigned[r][i] < assigned[r][j]
        /\ \A kwargs \in NewArgs(r), k \in 1..Len(assigned[r]) :
            LET a == CallAdd(State, r, kwargs)
            IN IdOf(a.s, a.ret) > assigned[r][k]

\* A task was added and deleted, and another task was added.
C2_Witness ==
    /\ Len(assigned["task"]) >= 2
    /\ ~Present(State, "task", assigned["task"][1])

\* C5: delete of a present identity removes exactly that record and
\* returns True, after which get finds nothing and a second delete returns
\* False; delete of an absent identity returns False and changes nothing.
C5_Delete ==
    \A r \in Repos, id \in Ids :
        LET d == CallDelete(State, r, id)
            before == repos[r].storage
            after == d.s.repos[r].storage
        IN IF Present(State, r, id)
           THEN /\ d.ret = PyBool(TRUE)
                /\ DictKeys(after) = DictKeys(before) \ {id}
                /\ \A k \in DictKeys(after) : DictAt(after, k) = DictAt(before, k)
                /\ d.s.repos[r].counter = repos[r].counter
                /\ \A q \in Repos \ {r} : d.s.repos[q] = repos[q]
                /\ CallGet(d.s, r, id).ret = None
                /\ CallDelete(d.s, r, id).ret = PyBool(FALSE)
           ELSE /\ d.ret = PyBool(FALSE)
                /\ d.s = State

\* One task was deleted and another is stored.
C5_Witness ==
    /\ \E k \in 1..Len(assigned["task"]) : ~Present(State, "task", assigned["task"][k])
    /\ \E k \in 1..Len(assigned["task"]) : Present(State, "task", assigned["task"][k])

\* C6: get of the identity an add has just returned gives the record that
\* add returned, and get of an identity with no stored record gives None.
C6_GetAfterAdd ==
    \A r \in Repos :
        /\ \A kwargs \in NewArgs(r) :
            LET a == CallAdd(State, r, kwargs)
                g == CallGet(a.s, r, IdOf(a.s, a.ret))
            IN /\ g.ret = a.ret
               /\ g.s.heap[g.ret[2]] = a.s.heap[a.ret[2]]
               /\ g.s = a.s
        /\ \A id \in Ids : ~Present(State, r, id) => CallGet(State, r, id).ret = None

\* A task was added and is stored, and an identity is stored nowhere.
C6_Witness ==
    /\ Len(assigned["task"]) >= 1
    /\ Present(State, "task", assigned["task"][Len(assigned["task"])])
    /\ \E id \in Ids : ~Present(State, "task", id)

\* The references of the records repository r holds.
StoredIn(s, r) == {s.repos[r].storage[i][2] : i \in 1..Len(s.repos[r].storage)}

\* Sequence q without its elements equal to x.
Without(q, x) == SelectSeq(q, LAMBDA e : e /= x)

\* C7: list returns exactly the stored records, each once, in the order of
\* their creation (references are handed out in creation order); an update
\* does not change it and a delete only takes the deleted record out; on an
\* empty repository it is the empty list, not None.
C7_ListInCreationOrder ==
    \A r \in Repos :
        LET l == CallList(State, r).ret IN
        /\ l[1] = "list"
        /\ {l[2][i] : i \in 1..Len(l[2])} = StoredIn(State, r)
        /\ \A i, j \in 1..Len(l[2]) : i < j => l[2][i] < l[2][j]
        /\ repos[r].storage = <<>> => l = PyList(<<>>)
        /\ \A id \in Ids, data \in Payloads(r) :
            CallList(CallUpdate(State, r, id, data).s, r).ret = l
        /\ \A id \in Ids :
            CallList(CallDelete(State, r, id).s, r).ret =
                IF Present(State, r, id)
                THEN PyList(Without(l[2], get(repos[r], id)[2]))
                ELSE l

\* Two tasks are stored.
C7_Witness == Len(repos["task"].storage) >= 2

\* C4: update of a present identity sets exactly the attributes the payload
\* names to the payload's values, leaves the record's other attributes, the
\* other records, the mapping and the counters as they were, returns the
\* record, and list shows it; an empty payload changes nothing. Update of an
\* absent identity returns None and changes nothing. A PUT /tasks/{id} body
\* leaves every field it omits at its prior value.
C4_Update ==
    /\ \A r \in Repos : \A id \in Ids, data \in Payloads(r) :
        LET u == CallUpdate(State, r, id, data) IN
        IF Present(State, r, id)
        THEN LET ref == DictAt(repos[r].storage, id)
                 old == heap[ref]
                 new == u.s.heap[ref]
             IN /\ u.ret = Ref(ref)
                /\ DOMAIN new = (DOMAIN old) \cup DictKeys(data)
                /\ \A a \in DOMAIN new :
                    new[a] = IF DictHas(data, a) THEN DictAt(data, a) ELSE old[a]
                /\ DOMAIN u.s.heap = DOMAIN heap
                /\ \A o \in (DOMAIN heap) \ {ref} : u.s.heap[o] = heap[o]
                /\ u.s.repos = repos
                /\ ref \in RefsOf(CallList(u.s, r).ret)
                /\ CallGet(u.s, r, id).ret = u.ret
                /\ data = <<>> => u.s = State
        ELSE /\ u.ret = None
             /\ u.s = State
    /\ \A id \in Ids, body \in TaskUpdateBodies :
        Present(State, "task", id) /\ Validates(TaskUpdateSchema, body) =>
            LET ref == DictAt(repos["task"].storage, id)
                out == update_task(State, id, body)
            IN \A a \in DOMAIN heap[ref] :
                ~DictHas(body, a) => out.s.heap[ref][a] = heap[ref][a]

\* A stored task was updated to title "B".
C4_Witness ==
    \E ref \in StoredIn(State, "task") : heap[ref].title = PyStr("B")

\* C8: on a fresh service POST /tasks/ {title: "A", description: "d"}
\* answers 200 with id 1 and completed false, then PUT /tasks/1
\* {completed: true} answers the task with completed true and title "A",
\* then DELETE /tasks/1 answers the success message, then GET /tasks/1
\* answers 404.
C8_TaskEndToEnd ==
    State = Fresh =>
        LET p == create_task(State, << <<"title", PyStr("A")>>, <<"description", PyStr("d")>> >>)
            u == update_task(p.s, 1, << <<"completed", PyBool(TRUE)>> >>)
            d == delete_task(u.s, 1)
            g == read_task(d.s, 1)
        IN /\ p.resp.status = 200
           /\ p.resp.body[2].id = PyInt(1)
           /\ p.resp.body[2].completed = PyBool(FALSE)
           /\ u.resp.status = 200
           /\ u.resp.body[2].completed = PyBool(TRUE)
           /\ u.resp.body[2].title = PyStr("A")
           /\ d.resp = [status |-> 200, body |-> <<"message", "Task deleted">>]
           /\ g.resp.status = 404

\* C9: on a fresh service POST /projects/ {name: "X"} twice answers 200
\* both times with the projects of ids 1 and 2, and GET /projects/ then
\* answers both of them.
C9_ProjectEndToEnd ==
    State = Fresh =>
        LET p1 == create_project(State, << <<"name", PyStr("X")>> >>)
            p2 == create_project(p1.s, << <<"name", PyStr("X")>> >>)
            l == read_projects(p2.s)
        IN /\ p1.resp.status = 200
           /\ p2.resp.status = 200
           /\ p1.resp.body[2].id = PyInt(1)
           /\ p2.resp.body[2].id = PyInt(2)
           /\ l.resp = [status |-> 200, body |-> PyList(<<p1.resp.body, p2.resp.body>>)]

\* Whether a task request's outcome is as C10 has it: 404 "Task not found"
\* exactly when the identity was absent, then with the state unchanged, and
\* 200 otherwise.
NotFoundIffAbsent(id, out) ==
    /\ (out.resp = NotFound("Task not found")) <=> ~Present(State, "task", id)
    /\ out.resp.status = 404 => out.s = State
    /\ out.resp.status /= 404 => out.resp.status = 200

\* C10: GET, PUT (with a body that validates) and DELETE on /tasks/{id}
\* answer 404 "Task not found" exactly when no task is stored under id,
\* then leaving the task repository unchanged, and answer 200 otherwise.
C10_NotFoundIffAbsent ==
    \A id \in Ids :
        /\ NotFoundIffAbsent(id, read_task(State, id))
        /\ NotFoundIffAbsent(id, delete_task(State, id))
        /\ \A body \in TaskUpdateBodies :
            Validates(TaskUpdateSchema, body) =>
                NotFoundIffAbsent(id, update_task(State, id, body))

\* Whether some thread's delete has removed the record of reference ref.
RemovedByDelete(ref) ==
    \E u \in Threads : th[u].op = "delete" /\ th[u].pc = "done" /\ th[u].item = ref

\* C3: with the steps of concurrent add calls interleaving, no two adds
\* return records of the same identity, and a record an add has returned is
\* in the store unless a delete has removed it.
C3_ConcurrentAdd ==
    /\ \A i, j \in 1..Len(assigned["task"]) :
        i /= j => assigned["task"][i] /= assigned["task"][j]
    /\ \A t \in Threads :
        th[t].op = "add" /\ th[t].pc = "done" /\ ~RemovedByDelete(th[t].ret)
            => th[t].ret[2] \in StoredIn(State, "task")

\* Identity id was assigned in repository r and its record has been deleted.
Gone(r, id) ==
    /\ \E k \in 1..Len(assigned[r]) : assigned[r][k] = id
    /\ ~Present(State, r, id)

\* C11: an identity becomes present only by an add that returns it and
\* absent only by a delete of it; update never changes which identities are
\* present; an identity that was deleted stays absent in every later step,
\* and get, update and list do not find it.
C11_Lifecycle ==
    [][\A r \in Repos : \A id \in Ids :
        /\ ~Present(State, r, id) /\ Present(State', r, id)
            => assigned'[r] = Append(assigned[r], id)
        /\ Present(State, r, id) /\ ~Present(State', r, id)
            => /\ repos'[r] = delete(repos[r], id).repo
               /\ assigned' = assigned
        /\ \A data \in Payloads(r) :
            DictKeys(CallUpdate(State, r, id, data).s.repos[r].storage)
                = DictKeys(repos[r].storage)
        /\ Gone(r, id) => Gone(r, id)'
        /\ Gone(r, id) =>
            /\ CallGet(State, r, id).ret = None
            /\ \A data \in Payloads(r) : CallUpdate(State, r, id, data).ret = None
            /\ \A i \in 1..Len(repos[r].storage) : repos[r].storage[i][1] /= id
    ]_vars

\* Task 1 was deleted and task 2, added later, is stored.
C11_Witness == Gone("task", 1) /\ Present(State, "task", 2)

\* Whether the response body snap shows the update of payload on the record
\* that was old in part: one of the payload's fields changed to its new
\* value, another not at its new value.
Torn(snap, payload, old) ==
    \E i, j \in 1..Len(payload) :
        /\ snap[payload[i][1]] = payload[i][2]
        /\ old[payload[i][1]] /= payload[i][2]
        /\ snap[payload[j][1]] /= payload[j][2]

\* C12: the response of a GET /tasks/{id} served while an update sets the
\* fields of the same task shows all of the update's fields applied or none
\* of them.
C12_NoTornRead ==
    \A t, u \in Threads :
        /\ th[t].op = "read" /\ th[t].pc = "done" /\ th[t].ret[1] = "json"
        /\ th[u].op = "update" /\ th[u].old /= None /\ th[u].item = th[t].item
        => ~Torn(th[t].ret[2], th[u].payload, th[u].old[2])

\* C13: get and list change nothing: after get of any identity and after
\* list, the mappings, every record's attributes and the counters are as
\* they were before the call.
C13_ReadsChangeNothing ==
    \A r \in Repos :
        /\ \A id \in Ids :
            LET g == CallGet(State, r, id)
            IN /\ g.s.repos = repos
               /\ g.s.heap = heap
               /\ g.s = State
        /\ LET l == CallList(State, r)
           IN /\ l.s.repos = repos
              /\ l.s.heap = heap
              /\ l.s = State

\* Task 1 is stored and identity 2 has not been assigned yet.
C13_Witness ==
    /\ Present(State, "task", 1)
    /\ ~Present(State, "task", 2)
    /\ repos["task"].counter = 2

\* Whether state s2, reached by an operation on repository r, has the other
\* repositories' mappings, counters and records as they are now.
OthersUntouched(r, s2) ==
    \A q \in Repos \ {r} :
        /\ s2.repos[q] = repos[q]
        /\ s2.assigned[q] = assigned[q]
        /\ \A ref \in StoredIn(State, q) : ref \in DOMAIN s2.heap /\ s2.heap[ref] = heap[ref]

\* C14: an operation on one repository, called directly or by a route
\* handler, leaves the mapping, the records and the counter of the other two
\* as they were, and identities are counted per repository: the first
\* record of each gets identity 1.
C14_Independent ==
    /\ \A r \in Repos :
        /\ \A kwargs \in NewArgs(r) :
            LET a == CallAdd(State, r, kwargs)
            IN /\ OthersUntouched(r, a.s)
               /\ Len(assigned[r]) = 0 => IdOf(a.s, a.ret) = 1
        /\ OthersUntouched(r, CallList(State, r).s)
        /\ \A id \in Ids :
            /\ OthersUntouched(r, CallGet(State, r, id).s)
            /\ OthersUntouched(r, CallDelete(State, r, id).s)
            /\ \A data \in Payloads(r) : OthersUntouched(r, CallUpdate(State, r, id, data).s)
    /\ \A body \in TaskCreateBodies : OthersUntouched("task", create_task(State, body).s)
    /\ OthersUntouched("task", read_tasks(State).s)
    /\ \A id \in Ids :
        /\ OthersUntouched("task", read_task(State, id).s)
        /\ OthersUntouched("task", delete_task(State, id).s)
        /\ \A body \in TaskUpdateBodies : OthersUntouched("task", update_task(State, id, body).s)
    /\ \A body \in ProjectCreateBodies : OthersUntouched("project", create_project(State, body).s)
    /\ OthersUntouched("project", read_projects(State).s)
    /\ \A body \in UserCreateBodies : OthersUntouched("user", create_user(State, body).s)
    /\ OthersUntouched("user", read_users(State).s)

\* The first task and the first project were added, each with identity 1.
C14_Witness ==
    /\ Len(assigned["task"]) >= 1 /\ assigned["task"][1] = 1
    /\ Len(assigned["project"]) >= 1 /\ assigned["project"][1] = 1

\* C15: the created_at of a task has the same value for as long as the task
\* is stored: no step, an update with any partial-field payload included,
\* changes it.
C15_CreatedAtImmutable ==
    [][\A ref \in StoredIn(State, "task") \cap StoredIn(State', "task") :
           heap'[ref].created_at = heap[ref].created_at]_vars

\* A create request body without the id and created_at a client put in it.
WithoutServerFields(body) == SelectSeq(body, LAMBDA e : e[1] \notin {"id", "created_at"})

\* C16: the record add returns and stores has the current counter value as
\* its identity whatever identity the passed record carried, and its
\* created_at is the time of its construction; an id or created_at in the
\* body of POST /tasks/ is dropped by the request model, and the request has
\* the same state and response as without them.
C16_ServerAssigned ==
    /\ \A r \in Repos : \A kwargs \in NewArgs(r) :
        LET a == CallAdd(State, r, kwargs)
            item == a.s.heap[a.ret[2]]
        IN /\ item.id = PyInt(repos[r].counter)
           /\ get(a.s.repos[r], repos[r].counter) = a.ret
           /\ r = "task" => item.created_at = Now(nobj + 1)
    /\ \A body \in TaskCreateBodies :
        /\ Validates(TaskCreateSchema, body) = Validates(TaskCreateSchema, WithoutServerFields(body))
        /\ dict(TaskCreateSchema, body) = dict(TaskCreateSchema, WithoutServerFields(body))
        /\ create_task(State, body) = create_task(State, WithoutServerFields(body))

\* A task added with identity 7 and completed set is stored with the
\* identity the repository counted.
C16_Witness ==
    /\ assigned["task"] = <<1>>
    /\ Present(State, "task", 1)
    /\ \E ref \in StoredIn(State, "task") :
        /\ heap[ref].id = PyInt(1)
        /\ heap[ref].title = PyStr("A")
        /\ heap[ref].completed = PyBool(TRUE)

\* C17: each record stored under key k has its id field equal to k, after
\* any sequence of add, update (the payload may name the identity field) and
\* delete; so get(k).id = k and the ids of the records list returns are
\* pairwise distinct.
C17_IdIsKey ==
    \A r \in Repos :
        /\ \A i \in 1..Len(repos[r].storage) :
            heap[repos[r].storage[i][2]].id = PyInt(repos[r].storage[i][1])
        /\ \A id \in Ids :
            Present(State, r, id) => IdOf(State, CallGet(State, r, id).ret) = id
        /\ LET items == CallList(State, r).ret[2]
           IN \A i, j \in 1..Len(items) : i /= j => heap[items[i]].id /= heap[items[j]].id

\* C18: every stored task has a non-null title, a non-null description and
\* a boolean completed, and so satisfies the task response shape: a body of
\* PUT /tasks/{id} never turns one of these fields into null, whether it
\* leaves the field out or sends it as null.
C18_NoNullFields ==
    /\ \A ref \in StoredIn(State, "task") :
        /\ heap[ref].title /= None
        /\ heap[ref].description /= None
        /\ heap[ref].completed \in {PyBool(TRUE), PyBool(FALSE)}
        /\ ValidatesAttrs(TaskResponseSchema, heap[ref])
    /\ \A id \in Ids : \A body \in TaskUpdateBodies :
        LET u == update_task(State, id, body)
        IN \A ref \in StoredIn(u.s, "task") :
            /\ u.s.heap[ref].title /= None
            /\ u.s.heap[ref].description /= None
            /\ u.s.heap[ref].completed /= None

\* C19: the counter of a repository starts at 1, add advances it by exactly
\* one, and get, list, update and delete leave it as it is; so it is 1 plus
\* the number of add calls made and greater than every key of the mapping.
C19_Counter ==
    \A r \in Repos :
        /\ repos[r].counter = 1 + Len(assigned[r])
        /\ \A i \in 1..Len(repos[r].storage) : repos[r].storage[i][1] < repos[r].counter
        /\ \A kwargs \in NewArgs(r) :
            CallAdd(State, r, kwargs).s.repos[r].counter = repos[r].counter + 1
        /\ CallList(State, r).s.repos[r].counter = repos[r].counter
        /\ \A id \in Ids :
            /\ CallGet(State, r, id).s.repos[r].counter = repos[r].counter
            /\ CallDelete(State, r, id).s.repos[r].counter = repos[r].counter
            /\ \A data \in Payloads(r) :
                CallUpdate(State, r, id, data).s.repos[r].counter = repos[r].counter

\* Two users were added and both deleted: the mapping is empty and the
\* counter is 3.
C19_Witness ==
    /\ Len(assigned["user"]) = 2
    /\ repos["user"].storage = <<>>
    /\ repos["user"].counter = 3

====
